---- MODULE Spec2Model ----
(***************************************************************************)
(* The trivia backend (backend/flaskr/__init__.py) as a state machine.     *)
(*                                                                         *)
(* State: the two tables of the relational store (categories, questions),  *)
(* the store's next auto-assigned question id, the HTTP exchange in flight  *)
(* (resp: request inputs and JSON response, until after_request hands it   *)
(* to the client) and what the client keeps of the exchange before it      *)
(* (prev), and the quiz client's session (session: the category it plays   *)
(* and the previous_questions list it holds; the server keeps none of it). *)
(* One action per route handler; a handler runs atomically.                *)
(*                                                                         *)
(* Text is modelled as a sequence of one-character strings, so that        *)
(* str(), int() and ILIKE are computed character by character.  A JSON     *)
(* scalar is a tagged record (JInt, JStr, JObj).  An optional key of a     *)
(* JSON object or of the query string is a sequence of length 0 (absent)   *)
(* or 1 (present, holding the value).                                      *)
(***************************************************************************)
EXTENDS Integers, Sequences, FiniteSets, TLC

VARIABLES categories, questions, nextId, resp, prev, session

vars == <<categories, questions, nextId, resp, prev, session>>

store == <<categories, questions, nextId>>

(***************************************************************************)
(* Bounds of the model.                                                    *)
(***************************************************************************)
\* number of rows of the largest initial questions table
SeedSize == 12
\* number of inserts attempted successfully in one behaviour
MaxCreate == 1
\* longest searchTerm submitted
MaxTerm == 2
\* longest previous_questions list submitted
MaxPrev == 2
\* longest collection handed to paginate on its own
MaxItems == 24
\* number of rows of the largest table a quiz session is played on
MaxSessionRows == 4

QUESTIONS_PER_PAGE == 10

(***************************************************************************)
(* Generic helpers.                                                        *)
(***************************************************************************)
Min(a, b) == IF a < b THEN a ELSE b

Max(a, b) == IF a > b THEN a ELSE b

\* all sequences over S of length at most n
RECURSIVE SeqsUpTo(_, _)
SeqsUpTo(S, n) ==
    IF n = 0 THEN {<<>>}
    ELSE LET shorter == SeqsUpTo(S, n - 1)
         IN  shorter \cup {Append(s, x) : s \in shorter, x \in S}

Elems(s) == {s[i] : i \in 1..Len(s)}

\* optional values
Absent == <<>>

Some(v) == <<v>>

Has(opt) == opt # <<>>

Get(opt) == opt[1]

\* JSON scalars
JInt(n) == [t |-> "int", n |-> n, s |-> <<>>]

JStr(s) == [t |-> "str", n |-> 0, s |-> s]

JObj == [t |-> "obj", n |-> 0, s |-> <<>>]

(***************************************************************************)
(* Python's str(int) and int(value).                                       *)
(***************************************************************************)
DigitChars == <<"0", "1", "2", "3", "4", "5", "6", "7", "8", "9">>

IsDigit(c) == \E d \in 1..10 : DigitChars[d] = c

DigitVal(c) == (CHOOSE d \in 1..10 : DigitChars[d] = c) - 1

\* str(n) for n >= 0
RECURSIVE StrNat(_)
StrNat(n) ==
    IF n < 10 THEN <<DigitChars[n + 1]>>
    ELSE Append(StrNat(n \div 10), DigitChars[(n % 10) + 1])

\* str(n): the decimal string of an integer
StrOf(n) == IF n < 0 THEN <<"-">> \o StrNat(0 - n) ELSE StrNat(n)

\* the value of a non-empty string of digits
RECURSIVE DigitsVal(_)
DigitsVal(s) ==
    IF Len(s) = 0 THEN 0
    ELSE 10 * DigitsVal(SubSeq(s, 1, Len(s) - 1)) + DigitVal(s[Len(s)])

AllDigits(s) == Len(s) > 0 /\ \A i \in 1..Len(s) : IsDigit(s[i])

\* int(s) for a string s over digits, signs and letters: an optional sign
\* followed by one or more digits, anything else raises ValueError
ParseInt(s) ==
    IF Len(s) > 0 /\ s[1] \in {"-", "+"}
    THEN IF AllDigits(Tail(s))
         THEN [ok |-> TRUE, v |-> IF s[1] = "-" THEN 0 - DigitsVal(Tail(s)) ELSE DigitsVal(Tail(s))]
         ELSE [ok |-> FALSE, v |-> 0]
    ELSE IF AllDigits(s) THEN [ok |-> TRUE, v |-> DigitsVal(s)]
         ELSE [ok |-> FALSE, v |-> 0]

\* int(x) for a JSON value x: an int is itself, a string is parsed, an
\* object raises TypeError
IntOf(x) ==
    IF x.t = "int" THEN [ok |-> TRUE, v |-> x.n]
    ELSE IF x.t = "str" THEN ParseInt(x.s)
    ELSE [ok |-> FALSE, v |-> 0]

(***************************************************************************)
(* paginate(request, collection)                                           *)
(***************************************************************************)
\* request.args.get('page', 1, type=int): the default when the key is absent
\* or its value does not convert
PageOf(args) ==
    IF Has(args.page) /\ ParseInt(Get(args.page)).ok
    THEN ParseInt(Get(args.page)).v
    ELSE 1

\* Python's index normalisation for a slice bound
SliceIndex(i, n) == IF i < 0 THEN Max(n + i, 0) ELSE Min(i, n)

\* collection[start:end]
Slice(collection, start, end) ==
    LET n == Len(collection)
        s == SliceIndex(start, n)
        e == SliceIndex(end, n)
    IN  IF s < e THEN SubSeq(collection, s + 1, e) ELSE <<>>

\* the record format() returns for a row
Format(c) ==
    [id |-> c.id, question |-> c.question, answer |-> c.answer,
     category |-> c.category, difficulty |-> c.difficulty]

FormatAll(collection) == [i \in 1..Len(collection) |-> Format(collection[i])]

\* paginate with the page number taken as 0-based
paginate_ZeroBased(args, collection) ==
    LET page == PageOf(args)
        start == page * QUESTIONS_PER_PAGE
        end == start + QUESTIONS_PER_PAGE
    IN  Slice(FormatAll(collection), start, end)

paginate(args, collection) ==
    LET page == PageOf(args)
        start == (page - 1) * QUESTIONS_PER_PAGE
        end == start + QUESTIONS_PER_PAGE
    IN  Slice(FormatAll(collection), start, end)

(***************************************************************************)
(* The store: Category and Question rows.                                  *)
(***************************************************************************)
CategoryIds == {c.id : c \in categories}

\* {category.id: category.type for category in Category.query.all()}
CategoryMap == [i \in CategoryIds |-> (CHOOSE c \in categories : c.id = i).type]

\* Question.query.all(), in id order
QueryAll == questions

\* db.session.get(Question, question_id): the row, or None
SessionGet(question_id) ==
    LET Hit(q) == q.id = question_id
        hits == SelectSeq(questions, Hit)
    IN  IF Len(hits) = 0 THEN Absent ELSE Some(hits[1])

\* the value a string column stores for a JSON value
StringColumn(x) ==
    IF x.t = "str" THEN [ok |-> TRUE, v |-> x.s]
    ELSE IF x.t = "int" THEN [ok |-> TRUE, v |-> StrOf(x.n)]
    ELSE [ok |-> FALSE, v |-> <<>>]

\* the value an integer column stores for a JSON value
IntegerColumn(x) == IntOf(x)

\* question.insert(): whether the INSERT is accepted
InsertAccepted(question, answer, category, difficulty) ==
    /\ StringColumn(question).ok
    /\ StringColumn(answer).ok
    /\ StringColumn(category).ok
    /\ IntegerColumn(difficulty).ok

\* the row an accepted INSERT adds
InsertedRow(id, question, answer, category, difficulty) ==
    [id |-> id,
     question |-> StringColumn(question).v,
     answer |-> StringColumn(answer).v,
     category |-> StringColumn(category).v,
     difficulty |-> IntegerColumn(difficulty).v]

\* question.delete(): the table without the row
DeletedFrom(table, question_id) ==
    LET Keep(q) == q.id # question_id
    IN  SelectSeq(table, Keep)

(***************************************************************************)
(* ILIKE.                                                                  *)
(***************************************************************************)
Lower(c) ==
    IF c = "A" THEN "a" ELSE IF c = "B" THEN "b" ELSE IF c = "C" THEN "c" ELSE c

LowerAll(s) == [i \in 1..Len(s) |-> Lower(s[i])]

\* s LIKE p: % matches any run of characters, _ any one character
RECURSIVE Like(_, _)
Like(s, p) ==
    IF Len(p) = 0 THEN Len(s) = 0
    ELSE IF Head(p) = "%"
         THEN Like(s, Tail(p)) \/ (Len(s) > 0 /\ Like(Tail(s), p))
         ELSE /\ Len(s) > 0
              /\ (Head(p) = "_" \/ Head(p) = Head(s))
              /\ Like(Tail(s), Tail(p))

\* column.ilike(pattern)
ILike(s, p) == Like(LowerAll(s), LowerAll(p))

(***************************************************************************)
(* Responses.                                                              *)
(***************************************************************************)
ErrorMessage(code) ==
    IF code = 400 THEN "bad request"
    ELSE IF code = 401 THEN "unauthorized"
    ELSE IF code = 404 THEN "resource not found"
    ELSE IF code = 405 THEN "not allowed"
    ELSE IF code = 422 THEN "unprocessable"
    ELSE "internal server error"

\* abort(code), answered by the error handler registered for code
Abort(op, req, code) ==
    [op |-> op, req |-> req, status |-> code,
     success |-> FALSE, error |-> code, message |-> ErrorMessage(code)]

NoResponse == [op |-> "none"]

Idle == resp = NoResponse

\* what the client keeps of a response: which request it answered, its
\* status, the question id it is about, the count it carries, and how far
\* the client is in the sequence create, delete the created id, get that id
\* (step 1, 2, 3; 0 outside it)
Kept(op, status, id, total, step) ==
    [op |-> op, status |-> status, id |-> id, total |-> total, step |-> step]

KeptNothing == Kept("none", 0, 0, 0, 0)

KeptOther == Kept("other", 0, 0, 0, 0)

KeptOf(r, before) ==
    IF r.op = "create_question" /\ r.status = 200
    THEN Kept(r.op, 200, r.created, r.total_questions, 1)
    ELSE IF r.op = "delete_question"
    THEN Kept(r.op, r.status, r.req.question_id,
              IF r.status = 200 THEN r.total_questions ELSE 0,
              IF before.step = 1 /\ before.id = r.req.question_id THEN 2 ELSE 0)
    ELSE IF r.op = "get_question"
    THEN Kept(r.op, r.status, r.req.question_id, 0,
              IF before.step = 2 /\ before.id = r.req.question_id THEN 3 ELSE 0)
    ELSE KeptOther

\* the handler returns r
Return(r) == resp' = r /\ prev' = KeptOf(r, prev) /\ UNCHANGED session

\* `not body`: a JSON object without keys
BodyEmpty(body) == \A k \in DOMAIN body : ~Has(body[k])

(***************************************************************************)
(* Route handlers.                                                         *)
(***************************************************************************)
\* GET /categories
get_categories ==
    /\ Idle
    /\ UNCHANGED store
    /\ Return(IF categories = {}
              THEN Abort("get_categories", [none |-> 0], 404)
              ELSE [op |-> "get_categories", req |-> [none |-> 0], status |-> 200,
                    success |-> TRUE, categories |-> CategoryMap])

\* NoQuestions deciding on the requested page instead of the table
NoQuestions_OnPage(all, args) == Len(paginate(args, all)) = 0

\* `if not questions` of get_questions
NoQuestions(all, args) == Len(all) = 0

\* GET /questions?page=
get_questions(args) ==
    /\ Idle
    /\ UNCHANGED store
    /\ LET all == QueryAll
       IN  Return(IF NoQuestions(all, args)
                  THEN Abort("get_questions", [args |-> args], 404)
                  ELSE [op |-> "get_questions", req |-> [args |-> args], status |-> 200,
                        success |-> TRUE,
                        questions |-> paginate(args, all),
                        current_category |-> Absent,
                        total_questions |-> Len(all),
                        categories |-> CategoryMap])

\* GET /questions/<int:question_id>
get_question(question_id) ==
    /\ Idle
    /\ UNCHANGED store
    /\ LET question == SessionGet(question_id)
       IN  Return(IF ~Has(question)
                  THEN Abort("get_question", [question_id |-> question_id], 404)
                  ELSE [op |-> "get_question", req |-> [question_id |-> question_id],
                        status |-> 200, success |-> TRUE,
                        questions |-> <<Format(Get(question))>>,
                        current_category |-> Some(Get(question).category),
                        total_questions |-> Len(QueryAll),
                        categories |-> CategoryMap])

\* DeleteResponse with the count taken before the delete
DeleteResponse_StaleCount(question_id, before, after) ==
    [op |-> "delete_question", req |-> [question_id |-> question_id],
     status |-> 200, success |-> TRUE,
     deleted |-> question_id,
     total_questions |-> Len(before)]

\* the answer of delete_question, built after question.delete()
DeleteResponse(question_id, before, after) ==
    [op |-> "delete_question", req |-> [question_id |-> question_id],
     status |-> 200, success |-> TRUE,
     deleted |-> question_id,
     total_questions |-> Len(after)]

\* DELETE /questions/<int:question_id>
delete_question(question_id) ==
    /\ Idle
    /\ UNCHANGED <<categories, nextId>>
    /\ LET question == SessionGet(question_id)
       IN  IF ~Has(question)
           THEN /\ UNCHANGED questions
                /\ Return(Abort("delete_question", [question_id |-> question_id], 404))
           ELSE /\ questions' = DeletedFrom(questions, Get(question).id)
                /\ Return(DeleteResponse(question_id, questions, questions'))

required_fields == {"question", "answer", "category", "difficulty"}

\* MissingFields with only the `not body` test
MissingFields_OnlyEmpty(body) == BodyEmpty(body)

\* `not body or not required_fields.issubset(body)`
MissingFields(body) == BodyEmpty(body) \/ \E f \in required_fields : ~Has(body[f])

\* CreateResponse with the count taken before the insert
CreateResponse_StaleCount(body, new_id, before, after) ==
    [op |-> "create_question", req |-> [body |-> body],
     status |-> 200, success |-> TRUE,
     created |-> new_id,
     total_questions |-> Len(before)]

\* the answer of create_question, built after new_question.insert()
CreateResponse(body, new_id, before, after) ==
    [op |-> "create_question", req |-> [body |-> body],
     status |-> 200, success |-> TRUE,
     created |-> new_id,
     total_questions |-> Len(after)]

\* POST /questions; inside the try, body[field] of an absent key raises
\* KeyError and a rejected INSERT raises too, and either ends in abort(422)
create_question(body) ==
    /\ Idle
    /\ nextId <= SeedSize + MaxCreate
    /\ UNCHANGED categories
    /\ IF MissingFields(body)
       THEN /\ UNCHANGED <<questions, nextId>>
            /\ Return(Abort("create_question", [body |-> body], 400))
       ELSE IF \/ \E f \in required_fields : ~Has(body[f])
               \/ ~InsertAccepted(Get(body.question), Get(body.answer),
                                  Get(body.category), Get(body.difficulty))
       THEN /\ UNCHANGED <<questions, nextId>>
            /\ Return(Abort("create_question", [body |-> body], 422))
       ELSE /\ questions' = Append(questions,
                               InsertedRow(nextId, Get(body.question), Get(body.answer),
                                           Get(body.category), Get(body.difficulty)))
            /\ nextId' = nextId + 1
            /\ Return(CreateResponse(body, nextId, questions, questions'))

\* Question.query.filter(Question.question.ilike(f'%{searchTerm}%')).all()
SearchSelection(searchTerm) ==
    LET Matches(q) == ILike(q.question, <<"%">> \o searchTerm \o <<"%">>)
    IN  SelectSeq(questions, Matches)

\* POST /questions/search?page=
search_questions(body, args) ==
    /\ Idle
    /\ UNCHANGED store
    /\ Return(IF BodyEmpty(body) \/ ~Has(body.searchTerm)
              THEN Abort("search_questions", [body |-> body, args |-> args], 400)
              ELSE LET selection == SearchSelection(Get(body.searchTerm))
                   IN  [op |-> "search_questions", req |-> [body |-> body, args |-> args],
                        status |-> 200, success |-> TRUE,
                        questions |-> paginate(args, selection),
                        total_questions |-> Len(selection),
                        current_category |-> Absent])

\* CategorySelection with the filter left out
CategorySelection_Unfiltered(category_id) == questions

\* Question.query.filter(Question.category == str(category_id)).all()
CategorySelection(category_id) ==
    LET InCategory(q) == q.category = StrOf(category_id)
    IN  SelectSeq(questions, InCategory)

\* GET /categories/<int:category_id>/questions?page=
select_questions_by_category(category_id, args) ==
    /\ Idle
    /\ UNCHANGED store
    /\ Return(IF category_id \notin CategoryIds
              THEN Abort("select_questions_by_category",
                         [category_id |-> category_id, args |-> args], 404)
              ELSE LET selection == CategorySelection(category_id)
                   IN  [op |-> "select_questions_by_category",
                        req |-> [category_id |-> category_id, args |-> args],
                        status |-> 200, success |-> TRUE,
                        questions |-> paginate(args, selection),
                        current_category |-> category_id,
                        total_questions |-> Len(selection)])

\* QuizSelection without the exclusion of previous_questions in a category
QuizSelection_SeenInCategory(category_id, previous_questions) ==
    LET Unseen(q) == q.id \notin Elems(previous_questions)
        InCategory(q) == q.category = StrOf(category_id)
    IN  IF category_id = 0
        THEN SelectSeq(questions, Unseen)
        ELSE SelectSeq(questions, InCategory)

\* the two Question.query.filter(...) of play_quiz
QuizSelection(category_id, previous_questions) ==
    LET Unseen(q) == q.id \notin Elems(previous_questions)
        UnseenInCategory(q) ==
            q.category = StrOf(category_id) /\ q.id \notin Elems(previous_questions)
    IN  IF category_id = 0
        THEN SelectSeq(questions, Unseen)
        ELSE SelectSeq(questions, UnseenInCategory)

\* the answer of play_quiz when no new question is available
NoMoreQuestions(body, category_id) ==
    [op |-> "play_quiz", req |-> [body |-> body], status |-> 200, success |-> TRUE,
     message |-> IF category_id # 0
                 THEN <<"No more questions available in the category ",
                        Get(Get(body.quiz_category).type),
                        " (Select another category to continue">>
                 ELSE <<"No more questions available - Add new (question, answer) pairs to continue">>,
     question |-> Absent]

\* NewQuestion returning the submitted list without the new id
NewQuestion_StaleList(body, category_id, new_question) ==
    [op |-> "play_quiz", req |-> [body |-> body], status |-> 200, success |-> TRUE,
     message |-> IF category_id # 0
                 THEN <<"New random question successfully retrieved from category ",
                        Get(Get(body.quiz_category).type)>>
                 ELSE <<"New random question successfully retrieved">>,
     question |-> Some(Format(new_question)),
     previous_questions |-> Get(body.previous_questions)]

\* the answer of play_quiz that carries new_question
NewQuestion(body, category_id, new_question) ==
    [op |-> "play_quiz", req |-> [body |-> body], status |-> 200, success |-> TRUE,
     message |-> IF category_id # 0
                 THEN <<"New random question successfully retrieved from category ",
                        Get(Get(body.quiz_category).type)>>
                 ELSE <<"New random question successfully retrieved">>,
     question |-> Some(Format(new_question)),
     previous_questions |-> Append(Get(body.previous_questions), new_question.id)]

\* POST /quizzes
play_quiz(body) ==
    /\ Idle
    /\ UNCHANGED store
    /\ IF BodyEmpty(body) \/ ~Has(body.previous_questions) \/ ~Has(body.quiz_category)
       THEN Return(Abort("play_quiz", [body |-> body], 400))
       ELSE IF ~Has(Get(body.quiz_category).id) \/ ~Has(Get(body.quiz_category).type)
       THEN Return(Abort("play_quiz", [body |-> body], 400))
       ELSE IF ~IntOf(Get(Get(body.quiz_category).id)).ok
       THEN Return(Abort("play_quiz", [body |-> body], 500))
       ELSE LET category_id == IntOf(Get(Get(body.quiz_category).id)).v
                selection == QuizSelection(category_id, Get(body.previous_questions))
            IN  IF category_id \notin CategoryIds \cup {0}
                THEN Return(Abort("play_quiz", [body |-> body], 404))
                ELSE IF Len(selection) = 0
                THEN Return(NoMoreQuestions(body, category_id))
                ELSE \E i \in 1..Len(selection) :
                        Return(NewQuestion(body, category_id, selection[i]))

\* the response leaves the server
after_request ==
    /\ ~Idle
    /\ resp' = NoResponse
    /\ UNCHANGED <<store, prev, session>>

(***************************************************************************)
(* Initial stores and request inputs.                                      *)
(***************************************************************************)
SeedCategories ==
    {[id |-> 1, type |-> "Science"], [id |-> 2, type |-> "Art"]}

\* row i of the largest initial table: all rows but the last are in
\* category 1, the last is in category 2
SeedRow(i) ==
    [id |-> i,
     question |-> IF i % 2 = 1 THEN <<"a", "b">> ELSE <<"b", "_">>,
     answer |-> <<"x">>,
     category |-> IF i < SeedSize THEN <<"1">> ELSE <<"2">>,
     difficulty |-> 1]

SeedTable(ids) ==
    LET Kept_(q) == q.id \in ids
    IN  SelectSeq([i \in 1..SeedSize |-> SeedRow(i)], Kept_)

\* the ids left in the initial tables (rows deleted earlier leave gaps)
SeedIdSets == {{}, {1, SeedSize}, 1..SeedSize}

PageStrings == {StrOf(p) : p \in -1..3} \cup {<<"a">>}

PageArgs == {[page |-> Absent]} \cup {[page |-> Some(s)] : s \in PageStrings}

\* question ids asked for: seeded ones, created ones, one never assigned
ReqIds == {1, SeedSize} \cup (SeedSize + 1 .. SeedSize + MaxCreate + 1)

CategoryReqIds == 0..3

TermChars == {"B", "_", "%"}

\* the pages asked of a search
SearchArgs == {[page |-> Absent], [page |-> Some(<<"2">>)]}

SearchBodies ==
    {[searchTerm |-> Some(t), other |-> Absent] : t \in SeqsUpTo(TermChars, MaxTerm)}
    \cup {[searchTerm |-> Absent, other |-> Absent],
          [searchTerm |-> Absent, other |-> Some(<<"a">>)]}

CreateBase ==
    [question |-> Some(JStr(<<"A", "%">>)), answer |-> Some(JStr(<<"y">>)),
     category |-> Some(JInt(2)), difficulty |-> Some(JInt(1)), extra |-> Absent]

CreateBodies ==
    {[CreateBase EXCEPT !.category = Some(c), !.difficulty = Some(d)] :
        c \in {JInt(2), JStr(<<"9">>), JStr(<<"a">>), JObj},
        d \in {JInt(1), JStr(<<"a">>)}}
    \cup {[CreateBase EXCEPT ![f] = Absent] : f \in required_fields}
    \cup {[CreateBase EXCEPT !.difficulty = Some(JStr(<<"3">>))],
          [CreateBase EXCEPT !.extra = Some(JInt(7))],
          [CreateBase EXCEPT !.extra = Some(JInt(7)), !.answer = Absent],
          [CreateBase EXCEPT !.extra = Some(JInt(7)), !.difficulty = Some(JObj)],
          [question |-> Absent, answer |-> Absent, category |-> Absent,
           difficulty |-> Absent, extra |-> Absent]}

PrevIds == {1, SeedSize}

QuizIds ==
    {JInt(0), JInt(1), JInt(3), JStr(<<"2">>), JStr(<<"0", "1">>),
     JStr(<<"-", "1">>), JStr(<<"a">>)}

QuizBodies ==
    {[previous_questions |-> Some(p),
      quiz_category |-> Some([id |-> Some(x), type |-> Some("Science")])] :
        p \in SeqsUpTo(PrevIds, MaxPrev), x \in QuizIds}
    \cup {[previous_questions |-> p,
           quiz_category |-> Some([id |-> x, type |-> t])] :
            p \in {Absent, Some(<<>>)},
            x \in {Absent, Some(JInt(1)), Some(JInt(3)), Some(JStr(<<"a">>))},
            t \in {Absent, Some("Science")}}
    \cup {[previous_questions |-> p, quiz_category |-> Absent] :
            p \in {Absent, Some(<<>>)}}

\* the quiz client before it plays
NoSession ==
    [active |-> FALSE, quiz_category |-> [id |-> Absent, type |-> Absent],
     previous_questions |-> <<>>, served |-> <<>>, calls |-> 0, done |-> FALSE]

(***************************************************************************)
(* The specification of the service.                                       *)
(***************************************************************************)
Init ==
    /\ \/ categories = SeedCategories /\ \E ids \in SeedIdSets : questions = SeedTable(ids)
       \/ categories = {} /\ questions = <<>>
    /\ nextId = SeedSize + 1
    /\ resp = NoResponse
    /\ prev = KeptNothing
    /\ session = NoSession

Next ==
    \/ get_categories
    \/ \E args \in PageArgs : get_questions(args)
    \/ \E question_id \in ReqIds : get_question(question_id)
    \/ \E question_id \in ReqIds : delete_question(question_id)
    \/ \E body \in CreateBodies : create_question(body)
    \/ \E body \in SearchBodies, args \in SearchArgs : search_questions(body, args)
    \/ \E category_id \in CategoryReqIds, args \in PageArgs :
            select_questions_by_category(category_id, args)
    \/ \E body \in QuizBodies : play_quiz(body)
    \/ after_request

Spec == Init /\ [][Next]_vars

(***************************************************************************)
(* paginate on its own: collections of every length up to MaxItems.        *)
(***************************************************************************)
Collections == {[i \in 1..n |-> SeedRow(i)] : n \in 0..MaxItems}

paginate_call(args, collection) ==
    /\ Idle
    /\ UNCHANGED store
    /\ Return([op |-> "paginate", req |-> [args |-> args, collection |-> collection],
               status |-> 200, result |-> paginate(args, collection)])

NextPaginate ==
    \/ \E args \in PageArgs, collection \in Collections : paginate_call(args, collection)
    \/ after_request

SpecPaginate == Init /\ [][NextPaginate]_vars

(***************************************************************************)
(* A quiz session: the client calls POST /quizzes with one category,       *)
(* starting from previous_questions = [], and submits in each call the     *)
(* previous_questions the call before returned.  Nothing else is           *)
(* requested, so the store is not modified.                                *)
(***************************************************************************)
\* the ids left in the tables a session is played on
SessionIdSets ==
    {{}, {SeedSize}, (1 .. MaxSessionRows - 1) \cup {SeedSize}}

\* the quiz_category objects a session may play
SessionCategories ==
    {[id |-> Some(x), type |-> Some(t)] :
        x \in {JInt(0), JInt(1), JStr(<<"2">>)}, t \in {"Science"}}

InitSession ==
    /\ \/ categories = SeedCategories /\ \E ids \in SessionIdSets : questions = SeedTable(ids)
       \/ categories = {} /\ questions = <<>>
    /\ nextId = SeedSize + 1
    /\ resp = NoResponse
    /\ prev = KeptNothing
    /\ session = NoSession

\* the client picks an existing category (or 0) and an empty list
session_start(quiz_category) ==
    /\ Idle
    /\ ~session.active
    /\ IntOf(Get(quiz_category.id)).v \in CategoryIds \cup {0}
    /\ session' = [NoSession EXCEPT !.active = TRUE, !.quiz_category = quiz_category]
    /\ UNCHANGED <<store, resp, prev>>

\* the body of the session's next call
SessionBody ==
    [previous_questions |-> Some(session.previous_questions),
     quiz_category |-> Some(session.quiz_category)]

\* the client calls POST /quizzes with the list it holds
session_call ==
    /\ session.active
    /\ ~session.done
    /\ play_quiz(SessionBody)

\* the client takes the answer: the returned previous_questions and the
\* question served, or the end of the session when question is null
session_receive ==
    /\ session.active
    /\ resp.op = "play_quiz"
    /\ resp' = NoResponse
    /\ session' =
        IF resp.status = 200 /\ Has(resp.question)
        THEN [session EXCEPT !.previous_questions = resp.previous_questions,
                             !.served = Append(@, Get(resp.question).id),
                             !.calls = @ + 1]
        ELSE [session EXCEPT !.calls = @ + 1, !.done = TRUE]
    /\ UNCHANGED <<store, prev>>

NextSession ==
    \/ \E quiz_category \in SessionCategories : session_start(quiz_category)
    \/ session_call
    \/ session_receive

\* the client keeps calling until the session ends, and every call is
\* answered
SpecSession ==
    /\ InitSession
    /\ [][NextSession]_vars
    /\ WF_vars(session_call)
    /\ WF_vars(session_receive)

(***************************************************************************)
(* Properties.                                                             *)
(***************************************************************************)
StoredQuestions == Elems(questions)

\* the 1-based page p of items: positions (p-1)*10+1 .. p*10, as far as
\* items has them
PageItems(p, items) ==
    LET first == (p - 1) * 10
        count == Max(Min(10, Len(items) - first), 0)
    IN  [i \in 1..count |-> items[first + i]]

\* the stored questions satisfying Test, in table order
RECURSIVE Matching(_, _)
Matching(Test(_), table) ==
    IF Len(table) = 0 THEN <<>>
    ELSE IF Test(Head(table)) THEN <<Head(table)>> \o Matching(Test, Tail(table))
    ELSE Matching(Test, Tail(table))

QuizAnswered == resp.op = "play_quiz" /\ resp.status = 200

QuizCategoryId == IntOf(Get(Get(resp.req.body.quiz_category).id)).v

QuizPrevious == Elems(Get(resp.req.body.previous_questions))

\* the candidate set of the request answered by resp
QuizCandidates ==
    {q \in StoredQuestions :
        /\ q.id \notin QuizPrevious
        /\ (QuizCategoryId = 0 \/ q.category = StrOf(QuizCategoryId))}

\* C1: a POST /quizzes that passes validation returns a member of the
\* candidate set (stored questions whose id is not in previous_questions and,
\* unless the category id is 0, whose category is the decimal string of the
\* category id), and question = null exactly when that set is empty.
C1_QuizReturnsCandidate ==
    QuizAnswered =>
        /\ Has(resp.question) => \E q \in QuizCandidates : Get(resp.question) = q
        /\ ~Has(resp.question) <=> QuizCandidates = {}

\* a quiz in a specific category with a non-empty exclusion list returned a
\* question while a stored question of that category was excluded and a
\* stored question of another category exists
C1_Witness ==
    /\ QuizAnswered
    /\ Has(resp.question)
    /\ QuizCategoryId # 0
    /\ \E q \in StoredQuestions : q.id \in QuizPrevious /\ q.category = StrOf(QuizCategoryId)
    /\ \E q \in StoredQuestions : q.category # StrOf(QuizCategoryId)

\* C2: a successful POST /questions reports the count before it plus 1; a
\* DELETE of the created id that follows it immediately succeeds, reports
\* deleted = the created id and a count one less than the create's (the
\* count before the creation); a GET of that id that follows returns 404.
C2_CreateThenDelete ==
    [][/\ (resp'.op = "create_question" /\ resp'.status = 200) =>
            resp'.total_questions = Len(questions) + 1
       /\ (prev.step = 1 /\ resp'.op = "delete_question"
                /\ resp'.req.question_id = prev.id) =>
            /\ resp'.status = 200
            /\ resp'.deleted = prev.id
            /\ resp'.total_questions = prev.total - 1
            /\ Len(questions') = prev.total - 1
       /\ (prev.step = 2 /\ resp'.op = "get_question"
                /\ resp'.req.question_id = prev.id) =>
            resp'.status = 404
      ]_vars

\* the client created a question, deleted it, then asked for it
C2_Witness ==
    /\ prev.step = 3
    /\ resp.op = "get_question"
    /\ resp.status = 404
    /\ Len(questions) > 0

PaginateCalled == resp.op = "paginate"

\* C3: for a page number p >= 1, paginate returns the items at positions
\* [(p-1)*10, p*10) in their order, clipped to the collection's length (the
\* empty sequence when (p-1)*10 is at or past the end); an absent page
\* parameter behaves as p = 1.
C3_PaginateSlices ==
    PaginateCalled =>
        LET args == resp.req.args
            items == resp.req.collection
            asked == IF Has(args.page) THEN ParseInt(Get(args.page))
                     ELSE [ok |-> TRUE, v |-> 1]
        IN  (asked.ok /\ asked.v >= 1) =>
                /\ resp.result = PageItems(asked.v, items)
                /\ (asked.v - 1) * 10 >= Len(items) => resp.result = <<>>

\* the second page of a collection of more than 10 and fewer than 20 items
C3_Witness ==
    /\ PaginateCalled
    /\ resp.req.args.page = Some(<<"2">>)
    /\ Len(resp.req.collection) > 10
    /\ Len(resp.req.collection) < 20
    /\ Len(resp.result) = Len(resp.req.collection) - 10

\* the page asked of a listing
AskedPage == PageOf(resp.req.args)

\* C4: GET /questions returns 404 exactly when the questions table has no
\* rows, whatever the page; with rows and a page past the end it returns 200
\* with an empty list and total_questions = the number of stored questions.
\* GET /categories returns 404 exactly when the categories table has no rows.
C4_NotFoundOnlyWhenEmpty ==
    /\ resp.op = "get_questions" =>
        /\ resp.status = 404 <=> Len(questions) = 0
        /\ resp.status # 404 =>
            /\ resp.status = 200
            /\ resp.total_questions = Len(questions)
            /\ (AskedPage >= 1 /\ (AskedPage - 1) * 10 >= Len(questions)) =>
                    resp.questions = <<>>
    /\ resp.op = "get_categories" =>
        /\ resp.status = 404 <=> categories = {}
        /\ resp.status \in {200, 404}

\* a page past the end of a non-empty table was listed
C4_Witness ==
    /\ resp.op = "get_questions"
    /\ resp.status = 200
    /\ Len(questions) > 0
    /\ AskedPage = 3
    /\ resp.questions = <<>>
    /\ resp.total_questions = Len(questions)

QuizAsked == resp.op = "play_quiz"

\* C5: POST /quizzes answers 400 when previous_questions or quiz_category
\* is missing, else 400 when quiz_category lacks id or type, else 404 when
\* the id, coerced to an integer, is not an existing category id or 0, and
\* 200 when it is; no other status is returned.
C5_QuizValidationOrder ==
    QuizAsked =>
        LET body == resp.req.body
        IN  IF ~Has(body.previous_questions) \/ ~Has(body.quiz_category)
            THEN resp.status = 400
            ELSE IF ~Has(Get(body.quiz_category).id) \/ ~Has(Get(body.quiz_category).type)
            THEN resp.status = 400
            ELSE LET id == IntOf(Get(Get(body.quiz_category).id))
                     known == id.ok /\ id.v \in CategoryIds \cup {0}
                 IN  resp.status = IF known THEN 200 ELSE 404

\* term occurs in text as a substring, letter case ignored
Contains(text, term) ==
    \E i \in 0..(Len(text) - Len(term)) :
        \A j \in 1..Len(term) : Lower(text[i + j]) = Lower(term[j])

\* C6: POST /questions/search with a searchTerm answers 200 with the
\* requested page of the stored questions whose text contains the term as a
\* case-insensitive substring, total_questions = the number of those
\* questions, current_category = null; without searchTerm it answers 400.
C6_SearchIsSubstringMatch ==
    resp.op = "search_questions" =>
        LET body == resp.req.body
        IN  IF ~Has(body.searchTerm) THEN resp.status = 400
            ELSE LET HasTerm(q) == Contains(q.question, Get(body.searchTerm))
                     found == Matching(HasTerm, questions)
                 IN  /\ resp.status = 200
                     /\ resp.total_questions = Len(found)
                     /\ resp.current_category = Absent
                     /\ AskedPage >= 1 => resp.questions = PageItems(AskedPage, found)

FourKeys == {"question", "answer", "category", "difficulty"}

\* the text a string column holds for a submitted value
StoredText(x) == IF x.t = "int" THEN StrOf(x.n) ELSE x.s

\* the number an integer column holds for a submitted value
StoredNumber(x) == IF x.t = "int" THEN x.n ELSE ParseInt(x.s).v

\* POST /questions: 400 and an unchanged table when one of the four keys is
\* missing, 422 and an unchanged table when the insert fails, else exactly
\* one row added, whose fields RowHolds(row, body), with the new id and the
\* previous count plus 1 returned
CreateContract(RowHolds(_, _)) ==
    resp'.op = "create_question" =>
        LET body == resp'.req.body
        IN  IF \E f \in FourKeys : ~Has(body[f])
            THEN resp'.status = 400 /\ questions' = questions
            ELSE IF ~InsertAccepted(Get(body.question), Get(body.answer),
                                    Get(body.category), Get(body.difficulty))
            THEN resp'.status = 422 /\ questions' = questions
            ELSE /\ resp'.status = 200
                 /\ Len(questions') = Len(questions) + 1
                 /\ SubSeq(questions', 1, Len(questions)) = questions
                 /\ RowHolds(questions'[Len(questions')], body)
                 /\ questions'[Len(questions')].id = resp'.created
                 /\ \A q \in StoredQuestions : q.id # resp'.created
                 /\ resp'.total_questions = Len(questions) + 1

\* the row holds the submitted JSON values themselves
HoldsSubmitted(row, body) ==
    /\ Get(body.question) = JStr(row.question)
    /\ Get(body.answer) = JStr(row.answer)
    /\ Get(body.category) = JStr(row.category)
    /\ Get(body.difficulty) = JInt(row.difficulty)

\* the row holds the submitted values converted to the types of its columns
HoldsConverted(row, body) ==
    /\ row.question = StoredText(Get(body.question))
    /\ row.answer = StoredText(Get(body.answer))
    /\ row.category = StoredText(Get(body.category))
    /\ row.difficulty = StoredNumber(Get(body.difficulty))

C8_CategoryNamesExisting ==
    \A q \in StoredQuestions : \E c \in categories : q.category = StrOf(c.id)

\* C9: DELETE /questions/{id} of a stored id removes exactly that row, leaves
\* the other questions and the categories as they were, and answers deleted =
\* id and total_questions = the count before minus 1; of an id not stored it
\* answers 404 and leaves the store unchanged.
C9_DeleteRemovesOneRow ==
    [][resp'.op = "delete_question" =>
        LET id == resp'.req.question_id
            IsId(q) == q.id = id
            NotId(q) == q.id # id
        IN  IF \E q \in StoredQuestions : q.id = id
            THEN /\ resp'.status = 200
                 /\ resp'.deleted = id
                 /\ resp'.total_questions = Len(questions) - 1
                 /\ Len(questions') = Len(questions) - 1
                 /\ questions' = Matching(NotId, questions)
                 /\ Len(Matching(IsId, questions)) = 1
                 /\ categories' = categories
            ELSE /\ resp'.status = 404
                 /\ UNCHANGED store
      ]_vars

\* a stored question was deleted and others remain
C9_Witness ==
    /\ resp.op = "delete_question"
    /\ resp.status = 200
    /\ Len(questions) > 0
    /\ \A q \in StoredQuestions : q.id # resp.deleted

\* C10: GET /categories/{id}/questions answers 404 exactly when id is not an
\* existing category id; otherwise 200 with current_category = id, the
\* requested page of the stored questions whose category is the decimal
\* string of id, and total_questions = the number of those questions.
C10_CategoryListing ==
    resp.op = "select_questions_by_category" =>
        LET id == resp.req.category_id
            InCategory(q) == q.category = StrOf(id)
            found == Matching(InCategory, questions)
        IN  /\ resp.status = 404 <=> ~\E c \in categories : c.id = id
            /\ resp.status # 404 =>
                /\ resp.status = 200
                /\ resp.current_category = id
                /\ resp.total_questions = Len(found)
                /\ AskedPage >= 1 => resp.questions = PageItems(AskedPage, found)

\* an existing category without questions was listed while other questions
\* are stored
C10_Witness ==
    /\ resp.op = "select_questions_by_category"
    /\ resp.status = 200
    /\ resp.total_questions = 0
    /\ resp.questions = <<>>
    /\ Len(questions) > 0

SessionCategoryId == IntOf(Get(session.quiz_category.id)).v

\* the stored questions of the session's category (all of them for id 0)
SessionMatching ==
    {q \in StoredQuestions :
        SessionCategoryId = 0 \/ q.category = StrOf(SessionCategoryId)}

NoRepeats(s) == \A i, j \in 1..Len(s) : s[i] = s[j] => i = j

\* the answer in flight belongs to the session
SessionAnswered == session.active /\ resp.op = "play_quiz"

\* what holds of a session at every moment: every call is answered 200; an
\* answer with a question returns the submitted list with that question's id
\* appended, and the question is a matching one not served before; with N
\* matching questions, call k <= N serves a question and call N+1 returns
\* question = null, after which no call is made
SessionSafe ==
    /\ session.active =>
        /\ NoRepeats(session.served)
        /\ Elems(session.served) \subseteq {q.id : q \in SessionMatching}
        /\ session.previous_questions = session.served
        /\ session.calls = Len(session.served) + (IF session.done THEN 1 ELSE 0)
        /\ session.done => session.calls = Cardinality(SessionMatching) + 1
    /\ SessionAnswered =>
        /\ resp.status = 200
        /\ ~session.done
        /\ Get(resp.req.body.previous_questions) = session.previous_questions
        /\ Has(resp.question) <=> session.calls < Cardinality(SessionMatching)
        /\ Has(resp.question) =>
            /\ resp.previous_questions =
                    Append(session.previous_questions, Get(resp.question).id)
            /\ Get(resp.question).id \notin Elems(session.served)
            /\ \E q \in SessionMatching : q = Get(resp.question)

\* C11: in a quiz session on an unmodified store, each successful call
\* returns the submitted previous_questions with the selected question's id
\* appended, no question is served twice, the first N calls each serve a
\* distinct one of the N matching questions and call N+1 returns question =
\* null; every session reaches that answer.
C11_SessionExhausts ==
    /\ []SessionSafe
    /\ session.active ~> session.done

\* a session in a specific category ended after serving each of at least
\* two matching questions once, while another category holds a question
C11_Witness ==
    /\ session.active
    /\ session.done
    /\ SessionCategoryId # 0
    /\ Len(session.served) = Cardinality(SessionMatching)
    /\ Cardinality(SessionMatching) >= 2
    /\ Cardinality(StoredQuestions) > Cardinality(SessionMatching)

====
